---- MODULE Spec2Model ----
(***************************************************************************)
(* A state-machine model of the JavaScript lexer of src/JSLexer.cpp:       *)
(* class Lexer, its driver tokenize and its recognizers readIdentifierFA,  *)
(* readNumberFA, readStringFA, readCommentFA, readOperatorFA and           *)
(* readPunctuation.  One step of the model is one iteration of a loop of   *)
(* the source (or a function's prologue or epilogue).  A character is a    *)
(* one-character string, a lexeme a sequence of characters.  pos is the    *)
(* 0-based offset of the source, so input[pos] of the source is            *)
(* input[pos + 1] here.                                                    *)
(***************************************************************************)
EXTENDS Integers, Sequences, FiniteSets, TLC

\* ------------------------------------------------------------------------
\* Bounds of the checked inputs: the longest input of each family.
MaxMixedLen == 3
MaxCommentLen == 6
MaxStringLen == 4
MaxNumberLen == 4
MaxOperatorLen == 3
MaxMunchLen == 4
MaxPieces == 6
MaxRun == 2
MaxIdentLen == 3
MaxWordSuffix == 1

\* The alphabets the inputs are drawn from.  MixedChars has at least one
\* character of every class the driver tells apart.
MixedChars ==
    {"0", "7", "a", "_", "+", "-", "/", "*", "=", ">", "\"", "'",
     "\n", " ", ";", ".", "@"}
CommentChars == {"/", "*", "\n", "a", "'"}
StringChars == {"\"", "'", "\\", "\n", "a"}
NumberChars == {"0", "1", ".", "e", "+", "a"}
OperatorChars == {"+", "-", "*", "/", "%", "^", "="}
MunchChars == {"=", "!", "<", ">", "&", "|"}

SeqsUpTo(A, n) == UNION {[1..k -> A] : k \in 0..n}

\* The pieces comment inputs are put together from.
CommentPieces == {<<"/", "*">>, <<"*", "/">>, <<"\n">>, <<"a">>}

RECURSIVE Flatten(_)
Flatten(ss) == IF ss = <<>> THEN <<>> ELSE Head(ss) \o Flatten(Tail(ss))

PieceInputs == {Flatten(ss) : ss \in SeqsUpTo(CommentPieces, MaxPieces)}

\* Numeric literals by their parts, well formed and not: an optional
\* sign, a run of digits, an optional '.' with or without digits, an
\* optional exponent marker with or without sign and digits.
DigitRuns == UNION {[1..k -> {"0", "1"}] : k \in 1..MaxRun}

Signs == {<<>>, <<"+">>, <<"-">>}

Fractions == {<<>>, <<".">>} \cup {<<".">> \o d : d \in DigitRuns}

ExponentRuns == {[i \in 1..k |-> "1"] : k \in 0..MaxRun}

Exponents ==
    {<<>>} \cup {<<e>> \o s \o d :
                     e \in {"e", "E"}, s \in Signs, d \in ExponentRuns}

LiteralInputs ==
    {s \o i \o f \o x :
        s \in Signs, i \in DigitRuns, f \in Fractions, x \in Exponents}

\* Names: short ones over letters of both cases, a digit, '_' and '$',
\* and the reserved words alone, after a word, and run together with
\* further characters.
IdentChars == {"i", "f", "I", "1", "_", "$", " "}

ReservedWords ==
    {<<"v", "a", "r">>, <<"i", "f">>, <<"e", "l", "s", "e">>,
     <<"f", "u", "n", "c", "t", "i", "o", "n">>,
     <<"r", "e", "t", "u", "r", "n">>, <<"l", "e", "t">>,
     <<"c", "o", "n", "s", "t">>, <<"w", "h", "i", "l", "e">>}

WordPrefixes == {<<>>, <<" ">>, <<"_">>, <<"i", "f", " ">>}

WordSuffixChars == {"s", " ", "(", "1"}

WordInputs ==
    {p \o w \o x :
        p \in WordPrefixes, w \in ReservedWords,
        x \in SeqsUpTo(WordSuffixChars, MaxWordSuffix)}

Inputs ==
    SeqsUpTo(MixedChars, MaxMixedLen)
        \cup SeqsUpTo(CommentChars, MaxCommentLen)
        \cup SeqsUpTo(StringChars, MaxStringLen)
        \cup SeqsUpTo(NumberChars, MaxNumberLen)
        \cup SeqsUpTo(OperatorChars, MaxOperatorLen)
        \cup SeqsUpTo(MunchChars, MaxMunchLen)
        \cup PieceInputs
        \cup LiteralInputs
        \cup SeqsUpTo(IdentChars, MaxIdentLen)
        \cup WordInputs

\* ------------------------------------------------------------------------
\* The state.
VARIABLES
    input,      \* Lexer::input, the source text
    trace,      \* the argument of tokenize
    pos,        \* Lexer::pos
    line,       \* Lexer::line
    col,        \* Lexer::col
    tokens,     \* the local vector of tokenize
    pc,         \* where control is: "tokenize", a recognizer, "done", "error"
    state,      \* the running recognizer's local State
    buf,        \* the running recognizer's local buf
    startCol,   \* the running recognizer's local startCol
    quote,      \* readStringFA's local quote
    traced,     \* the tokens handed to printToken, in order
    err,        \* the exception thrown, or NoError
    first,      \* the outcome of an earlier call of tokenize on this Lexer
    mark,       \* history: the cursor when the running recognizer was called
    marks       \* history: per token, the cursor at its call and pos at its return

vars ==
    <<input, trace, first, pos, line, col, tokens, pc, state, buf, startCol, quote,
      traced, err, mark, marks>>

\* ------------------------------------------------------------------------
\* <cctype> in the "C" locale, and the lexer's own character classes.
Digits == {"0", "1", "2", "3", "4", "5", "6", "7", "8", "9"}

Lower ==
    {"a", "b", "c", "d", "e", "f", "g", "h", "i", "j", "k", "l", "m",
     "n", "o", "p", "q", "r", "s", "t", "u", "v", "w", "x", "y", "z"}

Upper ==
    {"A", "B", "C", "D", "E", "F", "G", "H", "I", "J", "K", "L", "M",
     "N", "O", "P", "Q", "R", "S", "T", "U", "V", "W", "X", "Y", "Z"}

isdigit(c) == c \in Digits

isalpha(c) == c \in Lower \cup Upper

isalnum(c) == isalpha(c) \/ isdigit(c)

\* '\v' has no TLA+ string escape and is in no alphabet of the model.
isspace(c) == c \in {" ", "\t", "\n", "\r", "\f"}

isOperatorChar(c) ==
    c \in {"+", "-", "*", "/", "=", "<", ">", "!", "&", "|", "^", "%"}

isPunctuation(c) == c \in {"(", ")", "{", "}", "[", "]", ",", ";", "."}

keywords ==
    {<<"v", "a", "r">>, <<"i", "f">>, <<"e", "l", "s", "e">>,
     <<"f", "u", "n", "c", "t", "i", "o", "n">>,
     <<"r", "e", "t", "u", "r", "n">>, <<"l", "e", "t">>,
     <<"c", "o", "n", "s", "t">>, <<"w", "h", "i", "l", "e">>}

\* ------------------------------------------------------------------------
\* Reading the source.
Size == Len(input)

\* The '\0' that peek returns out of range: no character of any alphabet.
NUL == "NUL"

\* peek(offset) of readOperatorFA; the driver's guarded input[pos + 1] too.
peek(offset) == IF pos + offset < Size THEN input[pos + offset + 1] ELSE NUL

NoError == [kind |-> "none", line |-> 0, col |-> 0]


\* ------------------------------------------------------------------------
\* Construction (Lexer(src): pos = 0, line = 1, col = 1) and the call
\* tokenize(trace) with its empty vector.  The recognizers' locals do not
\* exist yet; they hold placeholders until a recognizer is called.
\* tokenize has not been called on this Lexer before.
NoRun == [pc |-> "none", tokens |-> <<>>, err |-> NoError]

Init ==
    /\ input \in Inputs
    /\ trace \in BOOLEAN
    /\ pos = 0
    /\ line = 1
    /\ col = 1
    /\ tokens = <<>>
    /\ pc = "tokenize"
    /\ state = "START"
    /\ buf = <<>>
    /\ startCol = 1
    /\ quote = NUL
    /\ traced = <<>>
    /\ err = NoError
    /\ first = NoRun
    /\ mark = [pos |-> 0, line |-> 1, col |-> 1]
    /\ marks = <<>>

\* ------------------------------------------------------------------------
\* The driver, tokenize.

\* The if-chain of tokenize on c = input[pos] and n = input[pos + 1] (NUL
\* when pos + 1 is out of range): the recognizer called, or "skip".
\* The chain calling readCommentFA at every '/', without the lookahead.
Classify_anySlash(c, n) ==
    IF c \in {"+", "-"} /\ isdigit(n) THEN "readNumberFA"
    ELSE IF isdigit(c) THEN "readNumberFA"
    ELSE IF isalpha(c) \/ c = "_" \/ c = "$" THEN "readIdentifierFA"
    ELSE IF c = "\"" \/ c = "'" THEN "readStringFA"
    ELSE IF c = "/" THEN "readCommentFA"
    ELSE IF isOperatorChar(c) THEN "readOperatorFA"
    ELSE IF isPunctuation(c) THEN "readPunctuation"
    ELSE "skip"

\* The chain without its first branch: a sign is an operator character.
Classify_unsigned(c, n) ==
    IF isdigit(c) THEN "readNumberFA"
    ELSE IF isalpha(c) \/ c = "_" \/ c = "$" THEN "readIdentifierFA"
    ELSE IF c = "\"" \/ c = "'" THEN "readStringFA"
    ELSE IF c = "/" /\ n \in {"/", "*"} THEN "readCommentFA"
    ELSE IF isOperatorChar(c) THEN "readOperatorFA"
    ELSE IF isPunctuation(c) THEN "readPunctuation"
    ELSE "skip"

Classify(c, n) ==
    IF c \in {"+", "-"} /\ isdigit(n) THEN "readNumberFA"
    ELSE IF isdigit(c) THEN "readNumberFA"
    ELSE IF isalpha(c) \/ c = "_" \/ c = "$" THEN "readIdentifierFA"
    ELSE IF c = "\"" \/ c = "'" THEN "readStringFA"
    ELSE IF c = "/" /\ n \in {"/", "*"} THEN "readCommentFA"
    ELSE IF isOperatorChar(c) THEN "readOperatorFA"
    ELSE IF isPunctuation(c) THEN "readPunctuation"
    ELSE "skip"

\* The dispatch without the check for the end of input that follows the
\* whitespace loop.
Dispatches_unchecked(f) ==
    /\ pc = "tokenize"
    /\ ~isspace(peek(0))
    /\ Classify(peek(0), peek(1)) = f

\* The driver is at a character that is not whitespace and dispatches to f.
Dispatches(f) ==
    /\ pc = "tokenize"
    /\ pos < Size
    /\ ~isspace(peek(0))
    /\ Classify(peek(0), peek(1)) = f

\* The inner while loop of tokenize: one whitespace character.
SkipWhitespace ==
    /\ pc = "tokenize"
    /\ pos < Size
    /\ isspace(peek(0))
    /\ line' = IF peek(0) = "\n" THEN line + 1 ELSE line
    /\ col' = IF peek(0) = "\n" THEN 1 ELSE col + 1
    /\ pos' = pos + 1
    /\ UNCHANGED <<input, trace, first, tokens, pc, state, buf, startCol, quote,
                   traced, err, mark, marks>>

\* The last else of tokenize throwing instead of dropping the character.
SkipUnknown_throw ==
    /\ Dispatches("skip")
    /\ pc' = "error"
    /\ err' = [kind |-> "UnknownCharacter", line |-> line, col |-> col]
    /\ UNCHANGED <<input, trace, first, pos, line, col, tokens, state, buf,
                   startCol, quote, traced, mark, marks>>

\* The last else of tokenize: a character that starts nothing is dropped.
SkipUnknown ==
    /\ Dispatches("skip")
    /\ pos' = pos + 1
    /\ col' = col + 1
    /\ UNCHANGED <<input, trace, first, line, tokens, pc, state, buf, startCol,
                   quote, traced, err, mark, marks>>

\* EndOfFileToken placed at the last recognizer's start column.
EndOfFileToken_startCol ==
    [type |-> "EndOfFile", lexeme |-> <<>>, line |-> line,
     column |-> startCol]

\* The token tokenize pushes after its loop.
EndOfFileToken ==
    [type |-> "EndOfFile", lexeme |-> <<>>, line |-> line, column |-> col]

\* The end of tokenize: the loop is left, EndOfFile is pushed (and not
\* printed), the vector is returned.
tokenize_return ==
    /\ pc = "tokenize"
    /\ pos >= Size
    /\ tokens' = Append(tokens, EndOfFileToken)
    /\ marks' = Append(marks,
                       [from |-> pos, to |-> pos, line |-> line, col |-> col])
    /\ pc' = "done"
    /\ UNCHANGED <<input, trace, first, pos, line, col, state, buf, startCol, quote,
                   traced, err, mark>>

\* ------------------------------------------------------------------------
\* What the recognizers share.

\* A transition of a recognizer's switch: the next state, the number of
\* characters taken (buf += c; pos++; col++ each), whether a taken '\n'
\* is tracked (line++; col = 1), and the error thrown, if any.
Go(s) == [next |-> s, take |-> 1, track |-> FALSE, throw |-> "none"]

Go2(s) == [next |-> s, take |-> 2, track |-> FALSE, throw |-> "none"]

GoTracked(s) == [next |-> s, take |-> 1, track |-> TRUE, throw |-> "none"]

Move(s) == [next |-> s, take |-> 0, track |-> FALSE, throw |-> "none"]

Throw(k) == [next |-> "ERROR", take |-> 0, track |-> FALSE, throw |-> k]

\* The characters a transition appends to buf.
Taken(n) == SubSeq(input, pos + 1, pos + n)

\* The error is recorded and the driver's loop goes on at the character
\* that caused it.
Raise_resume(k, c) ==
    /\ pc' = "tokenize"
    /\ err' = [kind |-> k, line |-> line, col |-> c]
    /\ UNCHANGED <<input, trace, first, pos, line, col, tokens, state, buf,
                   startCol, quote, traced, mark, marks>>

\* throw std::runtime_error(... line ..., ... c ...): tokenize ends.
Raise(k, c) ==
    /\ pc' = "error"
    /\ err' = [kind |-> k, line |-> line, col |-> c]
    /\ UNCHANGED <<input, trace, first, pos, line, col, tokens, state, buf,
                   startCol, quote, traced, mark, marks>>

\* One iteration of a recognizer's while loop taking transition d; an
\* error names column errCol.
Transit(d, errCol) ==
    IF d.throw # "none"
    THEN Raise(d.throw, errCol)
    ELSE /\ state' = d.next
         /\ buf' = buf \o Taken(d.take)
         /\ pos' = pos + d.take
         /\ line' = IF d.track /\ peek(0) = "\n" THEN line + 1 ELSE line
         /\ col' = IF d.track /\ peek(0) = "\n" THEN 1 ELSE col + d.take
         /\ UNCHANGED <<input, trace, first, tokens, pc, startCol, quote, traced,
                        err, mark, marks>>

\* A recognizer is called: State state = State::START; std::string buf;
\* int startCol = col.
Enter(f) ==
    /\ Dispatches(f)
    /\ pc' = f
    /\ startCol' = col
    /\ mark' = [pos |-> pos, line |-> line, col |-> col]

\* A recognizer called with the cursor at m returns t, printed first when
\* printed holds; tokens.push_back(t) in tokenize.
Return(t, printed, m) ==
    /\ tokens' = Append(tokens, t)
    /\ traced' = IF printed THEN Append(traced, t) ELSE traced
    /\ marks' = Append(marks, [from |-> m.pos, to |-> pos',
                               line |-> m.line, col |-> m.col])
    /\ pc' = "tokenize"

\* A recognizer's loop goes on: neither at the end of input nor in ACCEPT.
Looping(f) == pc = f /\ pos < Size /\ state # "ACCEPT"

\* A recognizer's loop is left: the end of input, or goto done in ACCEPT.
AtDone(f) == pc = f /\ (pos >= Size \/ state = "ACCEPT")


\* ------------------------------------------------------------------------
\* readIdentifierFA.
\* The table with IDENT continuing on letters, '_' and '$' only.
readIdentifierFA_delta_noDigits(s, c) ==
    CASE s = "START" ->
            IF isalpha(c) \/ c = "_" \/ c = "$" THEN Go("IDENT")
            ELSE Move("ACCEPT")
      [] s = "IDENT" ->
            IF isalpha(c) \/ c = "_" \/ c = "$" THEN Go("IDENT")
            ELSE Move("ACCEPT")

readIdentifierFA_delta(s, c) ==
    CASE s = "START" ->
            IF isalpha(c) \/ c = "_" \/ c = "$" THEN Go("IDENT")
            ELSE Move("ACCEPT")
      [] s = "IDENT" ->
            IF isalnum(c) \/ c = "_" \/ c = "$" THEN Go("IDENT")
            ELSE Move("ACCEPT")

readIdentifierFA_call ==
    /\ Enter("readIdentifierFA")
    /\ state' = "START"
    /\ buf' = <<>>
    /\ UNCHANGED <<input, trace, first, pos, line, col, tokens, quote, traced, err,
                   marks>>

readIdentifierFA_step ==
    /\ Looping("readIdentifierFA")
    /\ Transit(readIdentifierFA_delta(state, peek(0)), startCol)

\* done: the keyword lookup and the token; the line is read here.
readIdentifierFA_token ==
    [type |-> IF buf \in keywords THEN "Keyword" ELSE "Identifier",
     lexeme |-> buf, line |-> line, column |-> startCol]

readIdentifierFA_done ==
    /\ AtDone("readIdentifierFA")
    /\ UNCHANGED <<input, trace, first, pos, line, col, state, buf, startCol, quote,
                   err, mark>>
    /\ Return(readIdentifierFA_token, trace, mark)

\* ------------------------------------------------------------------------
\* readNumberFA.
\* The table with ZERO taking further digits as INT_PART does.
readNumberFA_delta_zeroDigits(s, c) ==
    CASE s = "START" ->
            IF c = "+" \/ c = "-" THEN Go("SIGN")
            ELSE IF c = "0" THEN Go("ZERO")
            ELSE IF isdigit(c) THEN Go("INT_PART")
            ELSE Move("ACCEPT")
      [] s = "SIGN" ->
            IF c = "0" THEN Go("ZERO")
            ELSE IF isdigit(c) THEN Go("INT_PART")
            ELSE Throw("MalformedNumber")
      [] s = "ZERO" ->
            IF isdigit(c) THEN Go("INT_PART")
            ELSE IF c = "." THEN Go("DOT")
            ELSE IF c = "e" \/ c = "E" THEN Go("EXP")
            ELSE Move("ACCEPT")
      [] s = "INT_PART" ->
            IF isdigit(c) THEN Go("INT_PART")
            ELSE IF c = "." THEN Go("DOT")
            ELSE IF c = "e" \/ c = "E" THEN Go("EXP")
            ELSE Move("ACCEPT")
      [] s = "DOT" ->
            IF isdigit(c) THEN Go("FRAC_PART")
            ELSE Throw("MalformedNumber")
      [] s = "FRAC_PART" ->
            IF isdigit(c) THEN Go("FRAC_PART")
            ELSE IF c = "e" \/ c = "E" THEN Go("EXP")
            ELSE Move("ACCEPT")
      [] s = "EXP" ->
            IF c = "+" \/ c = "-" THEN Go("EXP_SIGN")
            ELSE IF isdigit(c) THEN Go("EXP_NUM")
            ELSE Throw("MalformedExponent")
      [] s = "EXP_SIGN" ->
            IF isdigit(c) THEN Go("EXP_NUM")
            ELSE Throw("MalformedExponent")
      [] s = "EXP_NUM" ->
            IF isdigit(c) THEN Go("EXP_NUM")
            ELSE Move("ACCEPT")

readNumberFA_delta(s, c) ==
    CASE s = "START" ->
            IF c = "+" \/ c = "-" THEN Go("SIGN")
            ELSE IF c = "0" THEN Go("ZERO")
            ELSE IF isdigit(c) THEN Go("INT_PART")
            ELSE Move("ACCEPT")
      [] s = "SIGN" ->
            IF c = "0" THEN Go("ZERO")
            ELSE IF isdigit(c) THEN Go("INT_PART")
            ELSE Throw("MalformedNumber")
      [] s = "ZERO" ->
            IF isdigit(c) THEN Throw("LeadingZero")
            ELSE IF c = "." THEN Go("DOT")
            ELSE IF c = "e" \/ c = "E" THEN Go("EXP")
            ELSE Move("ACCEPT")
      [] s = "INT_PART" ->
            IF isdigit(c) THEN Go("INT_PART")
            ELSE IF c = "." THEN Go("DOT")
            ELSE IF c = "e" \/ c = "E" THEN Go("EXP")
            ELSE Move("ACCEPT")
      [] s = "DOT" ->
            IF isdigit(c) THEN Go("FRAC_PART")
            ELSE Throw("MalformedNumber")
      [] s = "FRAC_PART" ->
            IF isdigit(c) THEN Go("FRAC_PART")
            ELSE IF c = "e" \/ c = "E" THEN Go("EXP")
            ELSE Move("ACCEPT")
      [] s = "EXP" ->
            IF c = "+" \/ c = "-" THEN Go("EXP_SIGN")
            ELSE IF isdigit(c) THEN Go("EXP_NUM")
            ELSE Throw("MalformedExponent")
      [] s = "EXP_SIGN" ->
            IF isdigit(c) THEN Go("EXP_NUM")
            ELSE Throw("MalformedExponent")
      [] s = "EXP_NUM" ->
            IF isdigit(c) THEN Go("EXP_NUM")
            ELSE Move("ACCEPT")

readNumberFA_call ==
    /\ Enter("readNumberFA")
    /\ state' = "START"
    /\ buf' = <<>>
    /\ UNCHANGED <<input, trace, first, pos, line, col, tokens, quote, traced, err,
                   marks>>

readNumberFA_step ==
    /\ Looping("readNumberFA")
    /\ Transit(readNumberFA_delta(state, peek(0)), startCol)

\* done: the check of the character after the literal, whatever the state
\* the loop was left in.
readNumberFA_trailing_alnumOnly == pos < Size /\ isalnum(peek(0))

readNumberFA_trailing ==
    pos < Size /\ (isalnum(peek(0)) \/ peek(0) = "_" \/ peek(0) = "$")

\* The token with the sign left out of its lexeme.
readNumberFA_token_unsigned ==
    [type |-> "Number",
     lexeme |-> IF buf # <<>> /\ Head(buf) \in {"+", "-"}
                THEN Tail(buf) ELSE buf,
     line |-> line, column |-> startCol]

readNumberFA_token ==
    [type |-> "Number", lexeme |-> buf, line |-> line, column |-> startCol]

readNumberFA_done ==
    /\ AtDone("readNumberFA")
    /\ IF readNumberFA_trailing
       THEN Raise("InvalidTrailingCharacter", startCol)
       ELSE /\ UNCHANGED <<input, trace, first, pos, line, col, state, buf,
                           startCol, quote, err, mark>>
            /\ Return(readNumberFA_token, trace, mark)

\* ------------------------------------------------------------------------
\* readStringFA.

\* The prologue without its buf += quote.
readStringFA_open_noQuote(q) == <<>>

\* buf after the prologue: buf += quote.
readStringFA_open(q) == <<q>>

\* The switch without the newline case of IN_STRING: strings over lines.
readStringFA_delta_multiline(s, c, q) ==
    CASE s = "START" -> Move("IN_STRING")
      [] s = "IN_STRING" ->
            IF c = "\\" THEN Go("ESCAPE")
            ELSE IF c = q THEN Go("ACCEPT")
            ELSE Go("IN_STRING")
      [] s = "ESCAPE" -> Go("IN_STRING")

\* The table with a backslash and the character after it left unconsumed.
readStringFA_delta_idleEscape(s, c, q) ==
    CASE s = "START" -> Move("IN_STRING")
      [] s = "IN_STRING" ->
            IF c = "\\" THEN Move("ESCAPE")
            ELSE IF c = q THEN Go("ACCEPT")
            ELSE IF c = "\n" THEN Throw("UnterminatedString")
            ELSE Go("IN_STRING")
      [] s = "ESCAPE" -> Move("IN_STRING")

\* The table with ESCAPE closing the string at a matching quote.
readStringFA_delta_escapeCloses(s, c, q) ==
    CASE s = "START" -> Move("IN_STRING")
      [] s = "IN_STRING" ->
            IF c = "\\" THEN Go("ESCAPE")
            ELSE IF c = q THEN Go("ACCEPT")
            ELSE IF c = "\n" THEN Throw("UnterminatedString")
            ELSE Go("IN_STRING")
      [] s = "ESCAPE" -> IF c = q THEN Go("ACCEPT") ELSE Go("IN_STRING")

readStringFA_delta(s, c, q) ==
    CASE s = "START" -> Move("IN_STRING")
      [] s = "IN_STRING" ->
            IF c = "\\" THEN Go("ESCAPE")
            ELSE IF c = q THEN Go("ACCEPT")
            ELSE IF c = "\n" THEN Throw("UnterminatedString")
            ELSE Go("IN_STRING")
      [] s = "ESCAPE" -> Go("IN_STRING")

\* The call and the prologue: the opening quote is remembered and consumed.
readStringFA_call ==
    /\ Enter("readStringFA")
    /\ state' = "START"
    /\ quote' = peek(0)
    /\ buf' = readStringFA_open(peek(0))
    /\ pos' = pos + 1
    /\ col' = col + 1
    /\ UNCHANGED <<input, trace, first, line, tokens, traced, err, marks>>

readStringFA_step ==
    /\ Looping("readStringFA")
    /\ Transit(readStringFA_delta(state, peek(0), quote), startCol)

readStringFA_token ==
    [type |-> "String", lexeme |-> buf, line |-> line, column |-> startCol]

readStringFA_done ==
    /\ AtDone("readStringFA")
    /\ IF state # "ACCEPT"
       THEN Raise("UnterminatedString", startCol)
       ELSE /\ UNCHANGED <<input, trace, first, pos, line, col, state, buf,
                           startCol, quote, err, mark>>
            /\ Return(readStringFA_token, trace, mark)

\* ------------------------------------------------------------------------
\* readCommentFA.
\* The switch taking the '*' of the opener for the first '*' of a closer.
readCommentFA_delta_openerStar(s, c) ==
    CASE s = "SLASH" ->
            IF c = "/" THEN Go("SINGLE")
            ELSE IF c = "*" THEN Go("STAR")
            ELSE Throw("UnexpectedSlash")
      [] s = "SINGLE" ->
            IF c = "\n" THEN Move("ACCEPT") ELSE Go("SINGLE")
      [] s = "MULTI" ->
            IF c = "*" THEN Go("STAR") ELSE GoTracked("MULTI")
      [] s = "STAR" ->
            IF c = "/" THEN Go("ACCEPT")
            ELSE IF c = "*" THEN Go("STAR")
            ELSE GoTracked("MULTI")

readCommentFA_delta(s, c) ==
    CASE s = "SLASH" ->
            IF c = "/" THEN Go("SINGLE")
            ELSE IF c = "*" THEN Go("MULTI")
            ELSE Throw("UnexpectedSlash")
      [] s = "SINGLE" ->
            IF c = "\n" THEN Move("ACCEPT") ELSE Go("SINGLE")
      [] s = "MULTI" ->
            IF c = "*" THEN Go("STAR") ELSE GoTracked("MULTI")
      [] s = "STAR" ->
            IF c = "/" THEN Go("ACCEPT")
            ELSE IF c = "*" THEN Go("STAR")
            ELSE GoTracked("MULTI")

\* The call and the prologue: the first '/' is consumed, state = SLASH.
readCommentFA_call ==
    /\ Enter("readCommentFA")
    /\ state' = "SLASH"
    /\ buf' = <<peek(0)>>
    /\ pos' = pos + 1
    /\ col' = col + 1
    /\ UNCHANGED <<input, trace, first, line, tokens, quote, traced, err, marks>>

readCommentFA_step ==
    /\ Looping("readCommentFA")
    /\ Transit(readCommentFA_delta(state, peek(0)), startCol)

\* done: the line is read here, after the comment's newlines were counted.
readCommentFA_token ==
    [type |-> "Comment", lexeme |-> buf, line |-> line, column |-> startCol]

readCommentFA_done ==
    /\ AtDone("readCommentFA")
    /\ IF state # "ACCEPT"
       THEN Raise("UnterminatedComment", startCol)
       ELSE /\ UNCHANGED <<input, trace, first, pos, line, col, state, buf,
                           startCol, quote, err, mark>>
            /\ Return(readCommentFA_token, trace, mark)


\* ------------------------------------------------------------------------
\* readOperatorFA.  Its transitions read the source through peek: c is
\* peek() at the top of the iteration, and a peek() after an advance() is
\* peek(1) of the iteration's start.

\* State::START taking a '=' after + - * / % ^ into the same token.
readOperatorFA_START_compound ==
    LET c == peek(0) IN
    IF c = "=" THEN Go("GOT_EQ")
    ELSE IF c = "!" THEN Go("GOT_BANG")
    ELSE IF c = "<" THEN Go("GOT_LT")
    ELSE IF c = ">" THEN Go("GOT_GT")
    ELSE IF c = "&" THEN Go("GOT_AND")
    ELSE IF c = "|" THEN Go("GOT_OR")
    ELSE IF c \in {"+", "-", "*", "/", "%", "^"}
         THEN IF peek(1) = "=" THEN Go2("ACCEPT") ELSE Go("ACCEPT")
    ELSE Throw("UnknownOperator")

\* State::START.
readOperatorFA_START ==
    LET c == peek(0) IN
    IF c = "=" THEN Go("GOT_EQ")
    ELSE IF c = "!" THEN Go("GOT_BANG")
    ELSE IF c = "<" THEN Go("GOT_LT")
    ELSE IF c = ">" THEN Go("GOT_GT")
    ELSE IF c = "&" THEN Go("GOT_AND")
    ELSE IF c = "|" THEN Go("GOT_OR")
    ELSE IF c \in {"+", "-", "*", "/", "%", "^"} THEN Go("ACCEPT")
    ELSE Throw("UnknownOperator")

\* The switch with AFTER_GT2 left out: ">>>" is accepted as it stands.
readOperatorFA_delta_noGT2(s) ==
    CASE s = "START" -> readOperatorFA_START
      [] s \in {"GOT_EQ", "GOT_BANG"} ->
            IF peek(0) = "="
            THEN IF peek(1) = "=" THEN Go2("ACCEPT") ELSE Go("ACCEPT")
            ELSE Move("ACCEPT")
      [] s = "GOT_LT" ->
            IF peek(0) = "<" THEN Go("ACCEPT")
            ELSE IF peek(0) = "=" THEN Go("ACCEPT")
            ELSE Move("ACCEPT")
      [] s = "GOT_GT" ->
            IF peek(0) = ">" THEN Go("AFTER_GT1")
            ELSE IF peek(0) = "=" THEN Go("ACCEPT")
            ELSE Move("ACCEPT")
      [] s = "AFTER_GT1" ->
            IF peek(0) = ">" THEN Go("ACCEPT")
            ELSE IF peek(0) = "=" THEN Go("ACCEPT")
            ELSE Move("ACCEPT")
      [] s = "GOT_AND" ->
            IF peek(0) = "&" THEN Go("ACCEPT") ELSE Move("ACCEPT")
      [] s = "GOT_OR" ->
            IF peek(0) = "|" THEN Go("ACCEPT") ELSE Move("ACCEPT")

readOperatorFA_delta(s) ==
    CASE s = "START" -> readOperatorFA_START
      [] s \in {"GOT_EQ", "GOT_BANG"} ->
            IF peek(0) = "="
            THEN IF peek(1) = "=" THEN Go2("ACCEPT") ELSE Go("ACCEPT")
            ELSE Move("ACCEPT")
      [] s = "GOT_LT" ->
            IF peek(0) = "<" THEN Go("ACCEPT")
            ELSE IF peek(0) = "=" THEN Go("ACCEPT")
            ELSE Move("ACCEPT")
      [] s = "GOT_GT" ->
            IF peek(0) = ">" THEN Go("AFTER_GT1")
            ELSE IF peek(0) = "=" THEN Go("ACCEPT")
            ELSE Move("ACCEPT")
      [] s = "AFTER_GT1" ->
            IF peek(0) = ">" THEN Go("AFTER_GT2")
            ELSE IF peek(0) = "=" THEN Go("ACCEPT")
            ELSE Move("ACCEPT")
      [] s = "AFTER_GT2" ->
            IF peek(0) = "=" THEN Go("ACCEPT") ELSE Move("ACCEPT")
      [] s = "GOT_AND" ->
            IF peek(0) = "&" THEN Go("ACCEPT") ELSE Move("ACCEPT")
      [] s = "GOT_OR" ->
            IF peek(0) = "|" THEN Go("ACCEPT") ELSE Move("ACCEPT")

readOperatorFA_call ==
    /\ Enter("readOperatorFA")
    /\ state' = "START"
    /\ buf' = <<>>
    /\ UNCHANGED <<input, trace, first, pos, line, col, tokens, quote, traced, err,
                   marks>>

\* The "Unknown operator" error names col, not startCol.
readOperatorFA_step ==
    /\ Looping("readOperatorFA")
    /\ Transit(readOperatorFA_delta(state), col)

readOperatorFA_token ==
    [type |-> "Operator", lexeme |-> buf, line |-> line, column |-> startCol]

readOperatorFA_done ==
    /\ AtDone("readOperatorFA")
    /\ UNCHANGED <<input, trace, first, pos, line, col, state, buf, startCol, quote,
                   err, mark>>
    /\ Return(readOperatorFA_token, trace, mark)

\* ------------------------------------------------------------------------
\* readPunctuation: the whole function is one step; it does not print.
\* The token built after pos++; col++ instead of before.
readPunctuation_token_afterAdvance ==
    [type |-> "Punctuation", lexeme |-> <<peek(1)>>, line |-> line,
     column |-> col + 1]

readPunctuation_token ==
    [type |-> "Punctuation", lexeme |-> <<peek(0)>>, line |-> line,
     column |-> col]

readPunctuation ==
    /\ Dispatches("readPunctuation")
    /\ mark' = [pos |-> pos, line |-> line, col |-> col]
    /\ pos' = pos + 1
    /\ col' = col + 1
    /\ UNCHANGED <<input, trace, first, line, state, buf, startCol, quote, err>>
    /\ Return(readPunctuation_token, FALSE, mark')

\* ------------------------------------------------------------------------
Next ==
    \/ SkipWhitespace
    \/ SkipUnknown
    \/ tokenize_return
    \/ readIdentifierFA_call
    \/ readIdentifierFA_step
    \/ readIdentifierFA_done
    \/ readNumberFA_call
    \/ readNumberFA_step
    \/ readNumberFA_done
    \/ readStringFA_call
    \/ readStringFA_step
    \/ readStringFA_done
    \/ readCommentFA_call
    \/ readCommentFA_step
    \/ readCommentFA_done
    \/ readOperatorFA_call
    \/ readOperatorFA_step
    \/ readOperatorFA_done
    \/ readPunctuation

Spec == Init /\ [][Next]_vars

\* The program runs on: a step that can be taken is taken (one thread, no
\* blocking call between the steps of tokenize).
\* Every family of inputs but the two largest: short mixed text, and
\* comments by their pieces.
FairInputs ==
    SeqsUpTo(MixedChars, MaxMixedLen - 1)
        \cup SeqsUpTo(StringChars, MaxStringLen)
        \cup SeqsUpTo(NumberChars, MaxNumberLen)
        \cup SeqsUpTo(OperatorChars, MaxOperatorLen)
        \cup SeqsUpTo(MunchChars, MaxMunchLen)
        \cup PieceInputs
        \cup SeqsUpTo(IdentChars, MaxIdentLen)
        \cup WordInputs

InitFair == Init /\ input \in FairInputs

SpecFair == InitFair /\ [][Next]_vars /\ WF_vars(Next)

\* tokenize is called once more on the same Lexer with the same argument:
\* its local vector starts empty, pos, line and col are the fields as the
\* earlier call left them (tokenize does not assign them on entry).
tokenize_again ==
    /\ pc \in {"done", "error"}
    /\ first = NoRun
    /\ first' = [pc |-> pc, tokens |-> tokens, err |-> err]
    /\ tokens' = <<>>
    /\ marks' = <<>>
    /\ traced' = <<>>
    /\ err' = NoError
    /\ pc' = "tokenize"
    /\ UNCHANGED <<input, trace, pos, line, col, state, buf, startCol, quote,
                   mark>>

NextRerun == Next \/ tokenize_again

SpecRerun == Init /\ [][NextRerun]_vars


\* ------------------------------------------------------------------------
\* What the properties speak of.

\* The number of '\n' among the characters consumed so far.
NewlinesConsumed == Cardinality({i \in 1..pos : input[i] = "\n"})

\* The number of characters consumed since the last consumed '\n', or
\* since the start of the input.
ConsumedSinceNewline ==
    LET nl == {i \in 1..pos : input[i] = "\n"}
        last == IF nl = {} THEN 0 ELSE CHOOSE i \in nl : \A j \in nl : j <= i
    IN  pos - last

\* The source text of token i: what was consumed between the call of its
\* recognizer and its return.
SourceOf(i) == SubSeq(input, marks[i].from + 1, marks[i].to)

\* The source text of token i without its first a and its last b characters.
Interior(i, a, b) == SubSeq(input, marks[i].from + 1 + a, marks[i].to - b)

ArithmeticChars == {"+", "-", "*", "/", "%", "^"}

\* ------------------------------------------------------------------------
\* C1: every token carries the line and the column the cursor had at the
\* token's first character, a block comment with newlines included.
C1_TokenPositionIsItsStart ==
    \A i \in DOMAIN tokens :
        /\ tokens[i].line = marks[i].line
        /\ tokens[i].column = marks[i].col

\* C2: in every state line is 1 plus the number of consumed '\n' and col
\* is 1 plus the number of characters consumed since the last consumed
\* '\n', the characters consumed in nested states included.
C2_CursorInvariant ==
    /\ line = 1 + NewlinesConsumed
    /\ col = 1 + ConsumedSinceNewline

\* C3: a returned sequence holds exactly one EndOfFile token, as its last
\* element, with an empty lexeme and the cursor's final line and column.
C3_OneEndOfFileLast ==
    pc = "done" =>
        /\ tokens # <<>>
        /\ tokens[Len(tokens)] =
               [type |-> "EndOfFile", lexeme |-> <<>>, line |-> line,
                column |-> col]
        /\ \A i \in 1..(Len(tokens) - 1) : tokens[i].type # "EndOfFile"

C3_Witness ==
    /\ pc = "done"
    /\ Len(tokens) >= 3
    /\ line > 1
    /\ col > 1

\* C4: a numeric literal that stops after '.', 'e', 'E' or an exponent
\* sign fails, also at the end of input, so no Number token has a lexeme
\* that ends in one of these characters.
C4_NoIncompleteNumberToken ==
    \A i \in DOMAIN tokens :
        tokens[i].type = "Number" /\ tokens[i].lexeme # <<>> =>
            tokens[i].lexeme[Len(tokens[i].lexeme)]
                \notin {".", "e", "E", "+", "-"}

\* C5: a single-line comment never causes an error, whether it ends at a
\* '\n' or at the end of input.
C5_LineCommentNeverFails ==
    ~(/\ pc = "error"
      /\ err.kind = "UnterminatedComment"
      /\ Len(buf) >= 2
      /\ buf[2] = "/")

\* C6: an error reports the line and the column of the failing token's
\* first character, an unterminated block comment over several lines
\* included.
C6_ErrorAtTokenStart ==
    pc = "error" => err.line = mark.line /\ err.col = mark.col

\* C7: with trace set, printToken receives every token of the returned
\* sequence once and in order, Punctuation and EndOfFile tokens included.
C7_TraceIsTheTokenSequence ==
    pc = "done" /\ trace => traced = tokens

\* C8 as stated: the lexeme of a String token is the text between its
\* quotes, and the lexeme of a Comment token the text between its
\* delimiters.
C8_LexemeWithoutDelimiters ==
    \A i \in DOMAIN tokens :
        /\ tokens[i].type = "String" => tokens[i].lexeme = Interior(i, 1, 1)
        /\ tokens[i].type = "Comment" =>
               tokens[i].lexeme =
                   IF input[marks[i].from + 2] = "/"
                   THEN Interior(i, 2, 0)
                   ELSE Interior(i, 2, 2)

\* C8 as amended: the lexeme of a String token is its source text with
\* the opening and the closing quote around the unprocessed content, and
\* the lexeme of a Comment token has its delimiters around the content:
\* "//" in front, or "/*" in front and "*/" behind.
C8_LexemeKeepsDelimiters ==
    \A i \in DOMAIN tokens :
        LET lx == tokens[i].lexeme
            n == Len(lx)
        IN  /\ tokens[i].type = "String" =>
                   /\ n >= 2
                   /\ lx[1] \in {"\"", "'"}
                   /\ lx[n] = lx[1]
                   /\ SubSeq(lx, 2, n - 1) = Interior(i, 1, 1)
            /\ tokens[i].type = "Comment" =>
                   \/ /\ n >= 2
                      /\ SubSeq(lx, 1, 2) = <<"/", "/">>
                      /\ SubSeq(lx, 3, n) = Interior(i, 2, 0)
                   \/ /\ n >= 4
                      /\ SubSeq(lx, 1, 2) = <<"/", "*">>
                      /\ SubSeq(lx, n - 1, n) = <<"*", "/">>
                      /\ SubSeq(lx, 3, n - 2) = Interior(i, 2, 2)

C8_Witness ==
    \E i, j \in DOMAIN tokens :
        /\ tokens[i].type = "String"
        /\ Len(tokens[i].lexeme) >= 3
        /\ tokens[j].type = "Comment"

\* C9: every token's lexeme is the source text consumed between the call
\* of its recognizer and its return, and the tokens' ranges are disjoint
\* and in strictly increasing order.
C9_LexemeIsTheConsumedText ==
    \A i \in DOMAIN tokens :
        /\ tokens[i].lexeme = SourceOf(i)
        /\ i > 1 =>
               /\ marks[i - 1].to <= marks[i].from
               /\ marks[i - 1].from < marks[i].from

C9_Witness ==
    /\ pc = "done"
    /\ \E i \in DOMAIN tokens :
           /\ Len(tokens[i].lexeme) >= 2
           /\ i + 1 < Len(tokens)
           /\ marks[i].to < marks[i + 1].from

\* C10 as stated: an Operator token that starts at one of + - * / % ^
\* with '=' as the next character is the two-character compound form.
C10_CompoundAssignmentIsOneToken ==
    \A i \in DOMAIN tokens :
        /\ tokens[i].type = "Operator"
        /\ tokens[i].lexeme[1] \in ArithmeticChars
        /\ marks[i].from + 2 <= Size
        /\ input[marks[i].from + 2] = "="
        => tokens[i].lexeme = <<input[marks[i].from + 1], "=">>

\* C10 as amended: an Operator token that starts at one of + - * / % ^ is
\* that one character, also with '=' as the next character; the '=' then
\* starts the next token, an Operator of its own.
C10_ArithmeticOperatorIsOneChar ==
    \A i \in DOMAIN tokens :
        tokens[i].type = "Operator"
        /\ tokens[i].lexeme[1] \in ArithmeticChars
        => /\ Len(tokens[i].lexeme) = 1
           /\ marks[i].to = marks[i].from + 1
           /\ (i < Len(tokens) /\ marks[i].to < Size
               /\ input[marks[i].to + 1] = "=")
              => /\ tokens[i + 1].type = "Operator"
                 /\ tokens[i + 1].lexeme[1] = "="
                 /\ marks[i + 1].from = marks[i].to

C10_Witness ==
    \E i \in DOMAIN tokens :
        /\ i < Len(tokens)
        /\ tokens[i].type = "Operator"
        /\ tokens[i].lexeme = <<"*">>
        /\ tokens[i + 1].type = "Operator"
        /\ tokens[i + 1].lexeme = <<"=", "=">>

\* ------------------------------------------------------------------------
\* The operator set the specification lists for = ! < > & |.
ListedOperators ==
    {<<"=">>, <<"=", "=">>, <<"=", "=", "=">>,
     <<"!">>, <<"!", "=">>, <<"!", "=", "=">>,
     <<"<">>, <<"<", "<">>, <<"<", "=">>,
     <<">">>, <<">", "=">>, <<">", ">">>, <<">", ">", ">">>,
     <<">", ">", ">", "=">>,
     <<"&">>, <<"&", "&">>, <<"|">>, <<"|", "|">>}

\* The set the recognizer accepts: the listed ones and ">>=".
AcceptedOperators == ListedOperators \cup {<<">", ">", "=">>}

MunchStarts == {"=", "!", "<", ">", "&", "|"}

\* Token i is the longest prefix, in the set ops, of the input that
\* remained when its recognizer was called.
LongestIn(ops, i) ==
    /\ tokens[i].lexeme \in ops
    /\ \A k \in 1..(Size - marks[i].from) :
           SubSeq(input, marks[i].from + 1, marks[i].from + k) \in ops
               => k <= Len(tokens[i].lexeme)

\* C11 as stated: an Operator token that starts at one of = ! < > & | is
\* the longest prefix of the remaining input that is in the listed set
\* (maximal munch), and so a member of that set.
C11_MaximalMunchListed ==
    \A i \in DOMAIN tokens :
        tokens[i].type = "Operator" /\ tokens[i].lexeme[1] \in MunchStarts
            => LongestIn(ListedOperators, i)

\* C11 as amended: the same with ">>=" added to the set; the lexeme is
\* also the text consumed for the token.
C11_MaximalMunchAccepted ==
    \A i \in DOMAIN tokens :
        tokens[i].type = "Operator" /\ tokens[i].lexeme[1] \in MunchStarts
            => /\ LongestIn(AcceptedOperators, i)
               /\ tokens[i].lexeme = SourceOf(i)

C11_Witness ==
    /\ Len(tokens) >= 2
    /\ tokens[1].lexeme = <<"=", "=", "=">>
    /\ tokens[2].lexeme = <<"=">>

\* ------------------------------------------------------------------------
\* C12: an error ends the call at once: once an error is raised control is
\* nowhere but at the error, the tokens collected so far are not completed
\* by an EndOfFile token (no sequence is returned), and no further step is
\* taken: no recognizer runs and no character is consumed.
C12_ErrorEndsTokenize ==
    /\ [](err.kind # "none" =>
              /\ pc = "error"
              /\ \A i \in DOMAIN tokens : tokens[i].type # "EndOfFile")
    /\ [][err.kind = "none"]_vars

C12_Witness ==
    /\ pc = "error"
    /\ err.kind # "none"
    /\ Len(tokens) >= 1
    /\ pos < Size

\* ------------------------------------------------------------------------
\* The recognizer the driver calls with the cursor at offset p.
CalledAt(p) ==
    Classify(input[p + 1], IF p + 2 <= Size THEN input[p + 2] ELSE NUL)

\* A string literal read from the source by the specification's rules: j
\* is the offset of the next character, q the opening quote, esc whether
\* the character follows a backslash.  The result is the offset after the
\* closing quote, or 0 for an unterminated literal: the input ends, or a
\* raw newline is met, before the matching quote is met in the body.
RECURSIVE StringEnd(_, _, _)
StringEnd(j, q, esc) ==
    IF j >= Size THEN 0
    ELSE IF esc THEN StringEnd(j + 1, q, FALSE)
    ELSE IF input[j + 1] = "\\" THEN StringEnd(j + 1, q, TRUE)
    ELSE IF input[j + 1] = q THEN j + 1
    ELSE IF input[j + 1] = "\n" THEN 0
    ELSE StringEnd(j + 1, q, FALSE)

\* The literal whose opening quote is at offset p.
StringFrom(p) == StringEnd(p + 1, input[p + 1], FALSE)

\* C13: a string literal fails with UnterminatedString when a raw newline
\* or the end of input comes before the closing quote, in whichever state
\* after the opening quote, and is accepted only at the matching quote
\* met in the body, where it ends.
C13_StringTermination ==
    /\ \A i \in DOMAIN tokens :
           tokens[i].type = "String" =>
               /\ StringFrom(marks[i].from) # 0
               /\ marks[i].to = StringFrom(marks[i].from)
    /\ (pc = "error" /\ CalledAt(mark.pos) = "readStringFA") =>
           /\ err.kind = "UnterminatedString"
           /\ StringFrom(mark.pos) = 0
    /\ (pc = "readStringFA" /\ state = "ACCEPT") => StringFrom(mark.pos) = pos

C13_Witness ==
    /\ pc = "error"
    /\ err.kind = "UnterminatedString"
    /\ state = "ESCAPE"
    /\ pos = Size
    /\ Len(buf) >= 4

\* ------------------------------------------------------------------------
\* The offsets, after the opener of the block comment at offset p, of
\* each '*' that is directly followed by '/'.
Closers(p) ==
    {j \in (p + 2)..(Size - 2) : input[j + 1] = "*" /\ input[j + 2] = "/"}

Least(S) == CHOOSE j \in S : \A k \in S : j <= k

\* The token or the error at offset p is a block comment's.
BlockCommentAt(p) ==
    /\ CalledAt(p) = "readCommentFA"
    /\ input[p + 2] = "*"

\* C14: a block comment is accepted exactly when a '*' directly followed
\* by '/' comes after its opener, and ends at the first one; otherwise
\* the input ends in MULTI or STAR and the call fails with
\* UnterminatedComment.
C14_BlockCommentTermination ==
    /\ \A i \in DOMAIN tokens :
           tokens[i].type = "Comment" /\ BlockCommentAt(marks[i].from) =>
               /\ Closers(marks[i].from) # {}
               /\ marks[i].to = Least(Closers(marks[i].from)) + 2
    /\ (pc = "error" /\ BlockCommentAt(mark.pos)) =>
           /\ err.kind = "UnterminatedComment"
           /\ Closers(mark.pos) = {}
           /\ state \in {"MULTI", "STAR"}
           /\ pos = Size

C14_Witness ==
    /\ pc = "error"
    /\ err.kind = "UnterminatedComment"
    /\ buf = <<"/", "*", "/">>

\* ------------------------------------------------------------------------
\* The offset after the longest run of digits of s that starts at offset j.
RECURSIVE DigitsEnd(_, _)
DigitsEnd(s, j) ==
    IF j < Len(s) /\ s[j + 1] \in Digits THEN DigitsEnd(s, j + 1) ELSE j

\* The character of s at offset j, NUL past the end.
CharAt(s, j) == IF j < Len(s) THEN s[j + 1] ELSE NUL

\* s is one numeric literal of the grammar
\*     [+-]?(0|[1-9][0-9]*)(.[0-9]+)?([eE][+-]?[0-9]+)?
\* read part by part: a0 is the offset after the sign, a1 after the
\* integer part, a2 after the fraction, a3 after the exponent.
WellFormedNumber(s) ==
    LET a0 == IF CharAt(s, 0) \in {"+", "-"} THEN 1 ELSE 0
        a1 == IF CharAt(s, a0) = "0" THEN a0 + 1 ELSE DigitsEnd(s, a0)
        a2 == IF CharAt(s, a1) = "." THEN DigitsEnd(s, a1 + 1) ELSE a1
        e0 == IF CharAt(s, a2 + 1) \in {"+", "-"} THEN a2 + 2 ELSE a2 + 1
        a3 == IF CharAt(s, a2) \in {"e", "E"} THEN DigitsEnd(s, e0) ELSE a2
    IN  /\ a1 > a0
        /\ CharAt(s, a1) = "." => a2 > a1 + 1
        /\ CharAt(s, a2) \in {"e", "E"} => a3 > e0
        /\ a3 = Len(s)

\* C15: for an input that is exactly one well-formed numeric literal the
\* call does not fail, and it returns one Number token whose lexeme is
\* the whole input, sign included, followed by EndOfFile.
C15_NumberRoundTrip ==
    WellFormedNumber(input) =>
        /\ pc # "error"
        /\ pc = "done" =>
               /\ Len(tokens) = 2
               /\ tokens[1].type = "Number"
               /\ tokens[1].lexeme = input
               /\ tokens[2].type = "EndOfFile"

C15_Witness ==
    /\ pc = "done"
    /\ WellFormedNumber(input)
    /\ Len(input) >= 7
    /\ input[1] = "-"

\* ------------------------------------------------------------------------
\* The text s has an integer part '0' directly followed by another digit
\* at offset p, with or without a sign before it.
LeadingZeroIn(s, p) ==
    LET a == IF CharAt(s, p) \in {"+", "-"} THEN p + 1 ELSE p
    IN  CharAt(s, a) = "0" /\ CharAt(s, a + 1) \in Digits

\* C16: a numeric literal whose integer part is '0' directly followed by
\* a digit, signed or not, fails with LeadingZero (and only such a literal
\* does); no Number token starts at such a literal or has such a lexeme.
C16_LeadingZeroRejected ==
    /\ \A i \in DOMAIN tokens :
           tokens[i].type = "Number" =>
               /\ ~LeadingZeroIn(input, marks[i].from)
               /\ ~LeadingZeroIn(tokens[i].lexeme, 0)
    /\ (pc = "error" /\ CalledAt(mark.pos) = "readNumberFA") =>
           (err.kind = "LeadingZero" <=> LeadingZeroIn(input, mark.pos))

C16_Witness ==
    /\ pc = "error"
    /\ err.kind = "LeadingZero"
    /\ input[mark.pos + 1] \in {"+", "-"}
    /\ buf = <<input[mark.pos + 1], "0">>

\* ------------------------------------------------------------------------
\* A character that continues an identifier.
IdentifierChar(c) == c \in Lower \cup Upper \cup Digits \cup {"_", "$"}

\* C17: when the number automaton has stopped in front of a letter, a
\* digit, '_' or '$' the call fails with InvalidTrailingCharacter, so the
\* character directly after a Number token's text is never one of these.
C17_NoIdentifierCharAfterNumber ==
    /\ \A i \in DOMAIN tokens :
           (tokens[i].type = "Number" /\ marks[i].to < Size) =>
               ~IdentifierChar(input[marks[i].to + 1])
    /\ (pc = "error" /\ CalledAt(mark.pos) = "readNumberFA"
            /\ state = "ACCEPT") =>
           /\ err.kind = "InvalidTrailingCharacter"
           /\ IdentifierChar(peek(0))
    /\ err.kind = "InvalidTrailingCharacter" =>
           /\ CalledAt(mark.pos) = "readNumberFA"
           /\ pos > mark.pos
           /\ IdentifierChar(peek(0))

C17_Witness ==
    /\ pc = "error"
    /\ err.kind = "InvalidTrailingCharacter"
    /\ peek(0) = "_"
    /\ Len(tokens) >= 1

\* ------------------------------------------------------------------------
\* The offset after the longest run of identifier characters of the input
\* that starts at offset j.
RECURSIVE IdentifierEnd(_)
IdentifierEnd(j) ==
    IF j < Size /\ IdentifierChar(input[j + 1])
    THEN IdentifierEnd(j + 1) ELSE j

\* C18: a token read by the identifier recognizer is the maximal run of
\* letters, digits, '_' and '$' from the cursor; it is a Keyword exactly
\* when that run is one of the eight reserved words, an Identifier
\* otherwise; the recognizer returns such a token whenever it is called.
C18_IdentifierIsMaximalRun ==
    /\ \A i \in DOMAIN tokens :
           LET byName == /\ marks[i].from < Size
                         /\ CalledAt(marks[i].from) = "readIdentifierFA"
           IN  /\ tokens[i].type \in {"Identifier", "Keyword"} <=> byName
               /\ byName =>
                    /\ marks[i].to = IdentifierEnd(marks[i].from)
                    /\ marks[i].to > marks[i].from
                    /\ tokens[i].lexeme = SourceOf(i)
                    /\ tokens[i].type =
                           IF tokens[i].lexeme \in ReservedWords
                           THEN "Keyword" ELSE "Identifier"
    /\ pc = "error" => CalledAt(mark.pos) # "readIdentifierFA"

C18_Witness ==
    /\ pc = "done"
    /\ \E i, j \in DOMAIN tokens :
           /\ tokens[i].type = "Keyword"
           /\ tokens[j].type = "Identifier"
           /\ Len(tokens[j].lexeme) > 8
           /\ SubSeq(tokens[j].lexeme, 1, 8) \in ReservedWords

\* ------------------------------------------------------------------------
\* C19: a second call of tokenize on the same input ends as the first
\* did: the same token sequence, or the same error.
C19_SecondRunSameResult ==
    (first # NoRun /\ pc \in {"done", "error"}) =>
        /\ pc = first.pc
        /\ tokens = first.tokens
        /\ err = first.err

\* ------------------------------------------------------------------------
\* The number of '\n' among the characters of the input from offset a up
\* to offset b.
NewlinesBetween(a, b) == Cardinality({j \in (a + 1)..b : input[j] = "\n"})

\* C20: the token after a block comment that started on line l and holds
\* k newlines is reported on line l + k (plus the newlines skipped as
\* whitespace between the two), wherever in the comment the newlines are.
C20_LineAfterBlockComment ==
    \A i \in DOMAIN tokens :
        (/\ i + 1 \in DOMAIN tokens
         /\ tokens[i].type = "Comment"
         /\ SubSeq(SourceOf(i), 1, 2) = <<"/", "*">>) =>
            tokens[i + 1].line =
                marks[i].line
                    + NewlinesBetween(marks[i].from, marks[i].to)
                    + NewlinesBetween(marks[i].to, marks[i + 1].from)

\* ------------------------------------------------------------------------
\* The input has '+' or '-' at offset p, directly followed by a digit.
SignedDigitAt(p) ==
    /\ CharAt(input, p) \in {"+", "-"}
    /\ CharAt(input, p + 1) \in Digits

\* C21: a token read with the cursor at '+' or '-' directly followed by a
\* digit is a Number whose lexeme starts with that sign, whatever came
\* before it; read at a sign not followed by a digit it is the
\* one-character Operator; and the recognizer running from a sign is the
\* number recognizer in the first case, the operator recognizer in the
\* second.
C21_SignedNumberHasPriority ==
    /\ \A i \in DOMAIN tokens :
           CharAt(input, marks[i].from) \in {"+", "-"} =>
               IF SignedDigitAt(marks[i].from)
               THEN /\ tokens[i].type = "Number"
                    /\ Len(tokens[i].lexeme) >= 2
                    /\ Head(tokens[i].lexeme) = input[marks[i].from + 1]
               ELSE /\ tokens[i].type = "Operator"
                    /\ tokens[i].lexeme = <<input[marks[i].from + 1]>>
    /\ (pc \notin {"tokenize", "done", "error"}
            /\ CharAt(input, mark.pos) \in {"+", "-"}) =>
           pc = IF SignedDigitAt(mark.pos)
                THEN "readNumberFA" ELSE "readOperatorFA"

C21_Witness ==
    /\ pc = "done"
    /\ Len(tokens) = 3
    /\ tokens[1].type = "Identifier"
    /\ tokens[2].type = "Number"
    /\ tokens[2].lexeme = <<"-", "7">>
    /\ marks[2].from = marks[1].to

\* ------------------------------------------------------------------------
\* c starts one of the token categories: a number, a name, a string, an
\* operator or comment, a punctuation mark.
StartsToken(c) ==
    \/ IdentifierChar(c)
    \/ c \in {"\"", "'"}
    \/ c \in {"+", "-", "*", "/", "=", "<", ">", "!", "&", "|", "^", "%"}
    \/ c \in {"(", ")", "{", "}", "[", "]", ",", ";", "."}

\* The driver is about to look at a character that is not whitespace and
\* starts no token category.
AtStrayCharacter ==
    /\ pc = "tokenize"
    /\ pos < Size
    /\ input[pos + 1] \notin {" ", "\t", "\n", "\r", "\f"}
    /\ ~StartsToken(input[pos + 1])

\* C22: the driver's step at a character that is not whitespace and
\* starts no token category consumes exactly that character: pos and col
\* advance by one, line stays, no token is appended or printed and no
\* error is raised; the driver goes on.
C22_StrayCharacterIsSkipped ==
    [][AtStrayCharacter =>
           /\ pos' = pos + 1
           /\ col' = col + 1
           /\ line' = line
           /\ tokens' = tokens
           /\ traced' = traced
           /\ err' = err
           /\ pc' = "tokenize"]_vars

C22_Witness ==
    /\ pc = "tokenize"
    /\ err = NoError
    /\ pos >= 2
    /\ input[pos] = "@"
    /\ Len(tokens) = 1
    /\ marks[1].to = pos - 1
    /\ col = marks[1].col + Len(tokens[1].lexeme) + 1

\* ------------------------------------------------------------------------
\* tokenize has returned or thrown.
Terminated == pc \in {"done", "error"}

\* A variant of the run: the characters still to consume count most; at
\* one offset a recognizer that has consumed something ranks above the
\* driver it returns to (START above the states that consume, these above
\* ACCEPT), and the driver above a recognizer just called.
Rank ==
    IF Terminated THEN 0
    ELSE 6 * (Size - pos)
           + (IF pc = "tokenize" THEN 2
              ELSE IF pos = mark.pos THEN 1
              ELSE IF state = "ACCEPT" THEN 3
              ELSE IF state = "START" THEN 5
              ELSE 4)

\* C23: tokenize terminates, by returning or by throwing; every step of
\* the driver and of a recognizer lowers the variant: it advances pos, or
\* moves to a state whose next step advances it, accepts or fails.
C23_Terminates ==
    /\ <>Terminated
    /\ [][Rank' < Rank]_vars

C23_Witness ==
    /\ pc = "done"
    /\ Size >= 4
    /\ input[1] \in {"\"", "'"}
    /\ tokens[1].type = "String"
    /\ "\\" \in {input[j] : j \in 1..marks[1].to}
    /\ Len(tokens) >= 2
    /\ pos = Size

\* ------------------------------------------------------------------------
\* In the text s of a string literal, opening quote first, the character
\* at index k follows a backslash that is not itself escaped.
RECURSIVE EscapedAt(_, _)
EscapedAt(s, k) ==
    /\ k >= 3
    /\ s[k - 1] = "\\"
    /\ ~EscapedAt(s, k - 1)

\* C24: the character after a backslash belongs to the string and does
\* not close it or start an escape: the recognizer is in ESCAPE exactly
\* when the last consumed character is a backslash that is not escaped,
\* it accepts only at a matching quote that is not escaped, and a String
\* token's text holds no earlier matching quote that is not escaped.
C24_EscapedCharacterIsBody ==
    /\ (pc = "readStringFA" /\ state # "START") =>
           /\ state = "ESCAPE" <=>
                  (/\ Len(buf) >= 2
                   /\ buf[Len(buf)] = "\\"
                   /\ ~EscapedAt(buf, Len(buf)))
           /\ state = "ACCEPT" <=>
                  (/\ Len(buf) >= 2
                   /\ buf[Len(buf)] = quote
                   /\ ~EscapedAt(buf, Len(buf)))
    /\ \A i \in DOMAIN tokens :
           tokens[i].type = "String" =>
               LET s == SourceOf(i)
               IN  /\ Len(s) >= 2
                   /\ s[Len(s)] = s[1]
                   /\ ~EscapedAt(s, Len(s))
                   /\ \A k \in 2..(Len(s) - 1) :
                          s[k] = s[1] => EscapedAt(s, k)

C24_Witness ==
    /\ pc = "done"
    /\ Len(tokens) = 2
    /\ tokens[1].type = "String"
    /\ \E k \in 2..(Len(tokens[1].lexeme) - 1) :
           /\ tokens[1].lexeme[k] = tokens[1].lexeme[1]
           /\ EscapedAt(tokens[1].lexeme, k)

\* ------------------------------------------------------------------------
\* C25: the error branches that the driver's dispatch guards are never
\* taken: no UnknownOperator, no MalformedNumber thrown in SIGN, no
\* "Unexpected '/'" in SLASH.
C25_GuardedErrorsUnreachable ==
    /\ err.kind # "UnknownOperator"
    /\ err.kind # "UnexpectedSlash"
    /\ ~(err.kind = "MalformedNumber" /\ state = "SIGN")

C25_Witness ==
    /\ pc = "done"
    /\ Len(tokens) = 3
    /\ tokens[1].type = "Operator"
    /\ tokens[1].lexeme = <<"/">>
    /\ tokens[2].type = "Number"
    /\ Head(tokens[2].lexeme) \in {"+", "-"}

\* ------------------------------------------------------------------------
\* C26: pos stays within 0..Size and never decreases; what a step
\* consumes and what a recognizer has read (its quote, its buf, every
\* lexeme) are characters of the input, never a read past its end; and
\* when tokenize has returned pos = Size.
C26_CursorWithinInput ==
    /\ [](/\ 0 <= pos
          /\ pos <= Size
          /\ pc = "done" => pos = Size
          /\ pc = "readStringFA" => quote # NUL
          /\ \A k \in DOMAIN buf : buf[k] # NUL
          /\ \A i \in DOMAIN tokens :
                 \A k \in DOMAIN tokens[i].lexeme :
                     tokens[i].lexeme[k] # NUL)
    /\ [][pos' >= pos /\ pos' <= Size]_vars

C26_Witness ==
    /\ pc = "done"
    /\ pos = Size
    /\ Len(tokens) = 3
    /\ tokens[1].type = "String"
    /\ tokens[2].type = "Operator"

====
